---- MODULE Spec2Model ----
(***************************************************************************)
(* The quiz agent of src/main.py, src/agent.py and src/tools.py: the       *)
(* session launcher start_quiz, the bounded loop run_agent_loop and the    *)
(* five tool adapters, as one state machine.  Every session is a          *)
(* coroutine of one event loop: a session is interleaved with the others   *)
(* only where its code really suspends (starting Playwright, launching     *)
(* the browser, the awaits of scrape_page, browser.close(), leaving the    *)
(* async with).  model.generate_content, requests.get/post, pdfplumber and *)
(* exec are synchronous, so an iteration that does not scrape is one step. *)
(***************************************************************************)
EXTENDS Integers, Sequences, FiniteSets, TLC

(* ------------------------------ bounds -------------------------------- *)

\* The requests the launcher can receive (one session at most for each), and
\* those of them that a run with a single client sends.
Requests == {"r1", "r2"}
Clients == {"r1"}
\* Calls the oracle serves, over all sessions, each with any outcome; every
\* later call raises (the API key's quota is used up).
MaxAnswers == 2
\* Length of a short text (a page, a reason, an exception message).
ShortLen == 5

(* ------------------------- program constants -------------------------- *)

MY_SECRET == "elephant"
MaxSteps == 10
HistoryCap == 800
PromptEntries == 3
ScrapeCap == 30000
PdfCap == 10000

Secrets == {MY_SECRET, "wrong"}
Emails == {"e1", "e2"}
Urls == {"Q1", "Q2"}

(* ------------------------------- texts -------------------------------- *)
\* A Python string: what it says (kind, arg) and how long it is.

Text(kind, arg, len) == [kind |-> kind, arg |-> arg, len |-> len]
Empty == Text("empty", "", 0)
\* s[:n]
Prefix(s, n) == IF s.len > n THEN [s EXCEPT !.len = n] ELSE s
\* f"<lit>{e}" for a literal of litlen characters: one of the adapters' messages.
Message(kind, litlen, e) == Text(kind, e.arg, litlen + e.len)
\* len(str(e)) of an exception raised for the given cause: the messages of
\* Python's own errors are short, the message of an error of the oracle's API
\* is as long as the service makes it ("raise_long": longer than HistoryCap).
ExcLen(cause) == IF cause = "raise_long" THEN HistoryCap + 1 ELSE ShortLen
\* str(e) of an exception raised for the given cause.
ExcText(cause) == Text("exception", cause, ExcLen(cause))

(* --------------------------- oracle outputs --------------------------- *)
\* A JSON string value: its letters (as upper case) and how it is cased.
Str(name) == [name |-> name, case |-> "upper"]
Lower(name) == [name |-> name, case |-> "lower"]
Mixed(name) == [name |-> name, case |-> "mixed"]
\* A tool name compared as it was written.
AsWritten(s) == s
\* s.upper()
Upper(s) == [s EXCEPT !.case = "upper"]

\* None, and the mark of a key that a JSON object does not have.
None == "None"
Absent == "absent"
\* d.get(key, default), for the value v the object holds for the key
Get(v, default) == IF v = Absent THEN default ELSE v

\* The "args" value of an action: absent, not an object ("nondict": a list, a
\* string, a number, null), or an object with some of the keys the tools read.
Args(shape, url, filename, code, answer) ==
    [shape |-> shape, url |-> url, filename |-> filename, code |-> code,
     answer |-> answer]
NoArgs == Args("dict", Absent, Absent, Absent, Absent)
MissingArgs == [NoArgs EXCEPT !.shape = "missing"]
BadArgs == [NoArgs EXCEPT !.shape = "nondict"]

\* What model.generate_content(...).text is: the call raises ("raise", or
\* "raise_long" with a long message), the text
\* is not JSON ("notjson"), JSON that is no object ("nonobject"), or an object
\* whose "tool" is absent ("missing"), no string ("nonstr") or a string.
Bad(json) == [json |-> json, ttype |-> "missing", tool |-> Str(""), args |-> NoArgs]
Obj(ttype, tool, args) == [json |-> "object", ttype |-> ttype, tool |-> tool, args |-> args]

\* The file a session's quiz page links to.
FileOf(r) == IF r = "r1" THEN "F1" ELSE "F2"

Snippets == {"print_input", "raise", "exit"}

OracleFailures == {Bad("raise"), Bad("raise_long"), Bad("notjson"), Bad("nonobject")}
OracleAnswers(r) ==
    {Obj("nonstr", Str(""), NoArgs), Obj("missing", Str(""), NoArgs),
     Obj("str", Str("FOO"), NoArgs), Obj("str", Str("FOO"), BadArgs),
     Obj("str", Str("SCRAPE"), MissingArgs), Obj("str", Str("SCRAPE"), BadArgs),
     Obj("str", Lower("SCRAPE"), [NoArgs EXCEPT !.url = "Q2"]),
     Obj("str", Str("SCRAPE"), [NoArgs EXCEPT !.url = None]),
     Obj("str", Str("DOWNLOAD"), [NoArgs EXCEPT !.url = FileOf(r)]),
     Obj("str", Str("DOWNLOAD"), NoArgs),
     Obj("str", Str("DOWNLOAD"), BadArgs),
     Obj("str", Str("READ_PDF"), [NoArgs EXCEPT !.filename = "data_file.pdf"]),
     Obj("str", Str("READ_PDF"), NoArgs),
     Obj("str", Str("READ_PDF"), BadArgs),
     Obj("str", Str("PYTHON"), NoArgs),
     Obj("str", Str("PYTHON"), BadArgs),
     Obj("str", Str("SUBMIT"), [NoArgs EXCEPT !.url = "E", !.answer = "42"]),
     Obj("str", Str("SUBMIT"), NoArgs),
     Obj("str", Str("SUBMIT"), BadArgs)}
    \cup {Obj("str", Str("PYTHON"), [NoArgs EXCEPT !.code = c]) : c \in Snippets}
    \cup {Obj("str", Lower("DOWNLOAD"), [NoArgs EXCEPT !.url = FileOf(r)]),
          Obj("str", Lower("READ_PDF"), [NoArgs EXCEPT !.filename = "data_file.pdf"]),
          Obj("str", Lower("PYTHON"), [NoArgs EXCEPT !.code = "print_input"]),
          Obj("str", Mixed("SUBMIT"), [NoArgs EXCEPT !.url = "E", !.answer = "42"])}

(* ------------------------------ adapters ------------------------------ *)
\* What an adapter call does: it returns a value, or an exception leaves it.
Returns(value) == [raised |-> "none", value |-> value]
Raises(exc) == [raised |-> exc, value |-> Empty]

\* tools.execute_python_code(code, text_input), lines 11-30, with sys.stdout as
\* it is at the call: the value returned or the exception raised, and
\* sys.stdout afterwards.  exec(None) raises TypeError; a snippet that exits
\* the interpreter raises SystemExit, which is no Exception.
execute_python_code(code, text_input, out) ==
    LET old_stdout == out IN
    CASE code = "print_input" ->
           [ret |-> Returns([text_input EXCEPT !.len = @ + 1]), stdout |-> old_stdout]
      [] code = "exit" ->
           [ret |-> Raises("SystemExit"), stdout |-> "capture"]
      [] OTHER ->
           [ret |-> Returns(Message("exec_error", 22, ExcText(code))),
            stdout |-> old_stdout]

\* tools.scrape_page(page, url), lines 33-44; nav is how the navigation goes:
\* it fails, or the page's visible text has the given length.
Navigations == {"fail", "short", "long"}
scrape_page(url, nav) ==
    IF url = None \/ nav = "fail"
    THEN Returns(Message("scrape_error", 21, ExcText("goto")))
    ELSE Returns(Prefix(Text("page", url, IF nav = "long" THEN ScrapeCap + 1 ELSE ShortLen),
                        ScrapeCap))

\* The files of the working directory, shared by the whole process.
FileNames == {"data_file.pdf", "data_file.csv", "data_file.txt"}
NoFile == [url |-> "", type |-> "none", len |-> 0]
HasDot(filename) == filename \in FileNames
\* filename += ".pdf" / ".csv" / ".txt", lines 55-59
InferName(filename, content_type) ==
    IF HasDot(filename) THEN filename
    ELSE IF content_type = "pdf" THEN "data_file.pdf"
    ELSE IF content_type = "csv" THEN "data_file.csv"
    ELSE "data_file.txt"

\* tools.download_file(url, filename), lines 47-66; net is how the GET goes: it
\* fails, or it answers with that content type (a PDF is short or long).
Downloads == {"fail", "pdf", "longpdf", "csv", "other"}
ContentType(net) == IF net = "longpdf" THEN "pdf" ELSE net
download_file(url, filename, net, fs) ==
    IF url = None \/ filename = None \/ net = "fail"
    THEN [ret |-> Returns(Message("download_error", 19, ExcText("get"))), files |-> fs]
    ELSE LET name == InferName(filename, ContentType(net))
             body == [url |-> url, type |-> ContentType(net),
                      len |-> IF net = "longpdf" THEN PdfCap + 1 ELSE ShortLen]
         IN [ret |-> Returns(Text("saved", name, 23 + 13)),
             files |-> [fs EXCEPT ![name] = body]]

\* tools.read_pdf(filename), lines 69-80: the text of the file of that name
\* if there is one and it is a PDF.
read_pdf(filename, fs) ==
    IF filename \in FileNames /\ fs[filename].type = "pdf"
    THEN Returns(Prefix(Text("pdf", fs[filename].url, fs[filename].len), PdfCap))
    ELSE Returns(Message("pdf_error", 19, ExcText("open")))

\* A response of the submission endpoint, as submit_quiz returns it: res.json()
\* (an object with some of correct, url, reason, or a JSON value that is no
\* object), {"status", "text"} for a body that is not JSON, {"error"} when the
\* POST fails.
Response(shape, correct, url, reason) ==
    [shape |-> shape, correct |-> correct, url |-> url, reason |-> reason,
     keys |-> "json"]
\* {"status": res.status_code, "text": res.text} and {"error": str(e)}
RawRecord == [Response("dict", Absent, Absent, Absent) EXCEPT !.keys = "status,text"]
ErrorRecord == [Response("dict", Absent, Absent, Absent) EXCEPT !.keys = "error"]
Posts ==
    {Response("dict", "true", u, Absent) : u \in Urls \cup {Absent, ""}}
    \cup {Response("dict", "false", Absent, "wrong"),
          Response("dict", "false", Absent, "long"),
          Response("dict", "false", Absent, Absent),
          Response("dict", Absent, Absent, Absent),
          Response("list", Absent, Absent, Absent),
          Response("nonjson", Absent, Absent, Absent),
          Response("neterror", Absent, Absent, Absent)}
\* len(str(reason)) for the reasons of Posts: "None", a short one, a long one
ReasonLen(reason) ==
    IF reason = None THEN 4 ELSE IF reason = "long" THEN HistoryCap ELSE ShortLen
\* tools.submit_quiz(submit_url, payload), lines 83-95
submit_quiz(submit_url, payload, post) ==
    IF submit_url = None \/ post.shape = "neterror"
    THEN Returns(ErrorRecord)
    ELSE IF post.shape = "nonjson"
    THEN Returns(RawRecord)
    ELSE Returns(post)

(* ------------------------------- state -------------------------------- *)

VARIABLES
    req,          \* req[r]: the body of request r, once received
    resp,         \* resp[r]: start_quiz's answer to request r ("none" before it)
    task,         \* task[r]: the arguments run_agent_loop was started with
    pc,           \* pc[r]: where the session of request r is
    browser,      \* browser[r]: "none", "open", "closed"
    current_url,  \* the loop's locals, per session
    history,
    step,
    pending,      \* pending[r]: the URL scrape_page is visiting while suspended
    files,        \* the working directory: file name -> what was written
    stdout,       \* sys.stdout: "console", or the "capture" buffer of a snippet
    quota,        \* calls the oracle still serves
    iterations,   \* iterations[r]: loop iterations (oracle calls) begun so far
    outcome,      \* outcome[r]: how the loop was left ("none" while in it)
    last          \* last[r]: what the session's latest iteration did

vars == <<req, resp, task, pc, browser, current_url, history, step, pending, files,
          stdout, quota, iterations, outcome, last>>

NoTask == [url |-> "", email |-> "", secret |-> ""]
\* QuizRequest, main.py lines 17-21
QuizRequest(email, secret, url) == [email |-> email, secret |-> secret, url |-> url]
NoRequest == QuizRequest("", "", "")
\* last[r] before the first iteration, and the fields of an iteration's record:
\* the oracle's output, the adapter called ("none" if none), what the adapter
\* did, the payload of a submission, text_input of a snippet, and how the
\* iteration ended: "record", "error", "advance", "done", "raise", or "suspend"
\* while scrape_page is awaited.
NoPayload == [email |-> "", secret |-> "", url |-> "", answer |-> ""]
\* json.dumps(v) of a list of history entries: the entries, in the list's order
json_dumps(v) == [kind |-> "json", items |-> v]
NoPrompt == [current_url |-> "", history |-> json_dumps(<<>>)]
\* The record also holds the prompt the iteration sent to the oracle, and
\* since: how many iterations have begun after the latest advance (this one
\* included).
Did(out, adapter, ret, end) ==
    [out |-> out, adapter |-> adapter, ret |-> ret, end |-> end,
     payload |-> NoPayload, text_input |-> Empty, target |-> "", submit_url |-> "",
     prompt |-> NoPrompt, since |-> 0]
NoStep == Did(Bad("raise"), "none", Returns(Empty), "none")

\* The state before any request, for the set of requests that will be sent.
Start(sent) ==
    /\ req = [r \in Requests |-> NoRequest]
    /\ resp = [r \in Requests |-> IF r \in sent THEN "none" ELSE "unsent"]
    /\ task = [r \in Requests |-> NoTask]
    /\ pc = [r \in Requests |-> "none"]
    /\ browser = [r \in Requests |-> "none"]
    /\ current_url = [r \in Requests |-> ""]
    /\ history = [r \in Requests |-> <<>>]
    /\ step = [r \in Requests |-> 0]
    /\ pending = [r \in Requests |-> ""]
    /\ files = [f \in FileNames |-> NoFile]
    /\ stdout = "console"
    /\ quota = MaxAnswers
    /\ iterations = [r \in Requests |-> 0]
    /\ outcome = [r \in Requests |-> "none"]
    /\ last = [r \in Requests |-> NoStep]

Init == Start(Clients)
InitConc == Start(Requests)

(* ------------------------------ launcher ------------------------------ *)

\* tasks.add_task(agent.run_agent_loop, req.url, req.email, req.secret), line 40,
\* for run_agent_loop(start_url, email, secret)
add_task(q) == [url |-> q.url, email |-> q.email, secret |-> q.secret]

\* A launcher without the check.
NoCheck(secret) == FALSE
\* req.secret != MY_SECRET, line 33
Unauthorized(secret) == secret # MY_SECRET

\* main.start_quiz, lines 26-43: a request with a wrong secret gets 403 and
\* nothing is started; another one gets its task queued and the 200 answer.
start_quiz(r) ==
    /\ resp[r] = "none"
    /\ \E secret \in Secrets, email \in Emails, url \in {"Q1"} :
         LET q == QuizRequest(email, secret, url) IN
         /\ req' = [req EXCEPT ![r] = q]
         /\ IF Unauthorized(q.secret)
            THEN /\ resp' = [resp EXCEPT ![r] = "403"]
                 /\ UNCHANGED <<task, pc>>
            ELSE /\ resp' = [resp EXCEPT ![r] = "200"]
                 /\ task' = [task EXCEPT ![r] = add_task(q)]
                 /\ pc' = [pc EXCEPT ![r] = "queued"]
    /\ UNCHANGED <<browser, current_url, history, step, pending, files, stdout,
                   quota, iterations, outcome, last>>

(* ------------------------- run_agent_loop: entry ---------------------- *)

\* Lines 23-25: async with async_playwright() as p, p.chromium.launch().  A
\* browser that cannot be started raises out of the function.
launch_browser(r) ==
    /\ pc[r] = "queued"
    /\ \E ok \in BOOLEAN :
         IF ok
         THEN /\ browser' = [browser EXCEPT ![r] = "open"]
              /\ pc' = [pc EXCEPT ![r] = "launched"]
              /\ UNCHANGED outcome
         ELSE /\ pc' = [pc EXCEPT ![r] = "unwinding"]
              /\ outcome' = [outcome EXCEPT ![r] = "raised"]
              /\ UNCHANGED browser
    /\ UNCHANGED <<req, resp, task, current_url, history, step, pending, files, stdout,
                   quota, iterations, last>>

\* Lines 26-29: browser.new_page(), then current_url = start_url, history = [].
new_page(r) ==
    /\ pc[r] = "launched"
    /\ \E ok \in BOOLEAN :
         IF ok
         THEN /\ current_url' = [current_url EXCEPT ![r] = task[r].url]
              /\ history' = [history EXCEPT ![r] = <<>>]
              /\ step' = [step EXCEPT ![r] = 0]
              /\ pc' = [pc EXCEPT ![r] = "loop"]
              /\ UNCHANGED outcome
         ELSE /\ pc' = [pc EXCEPT ![r] = "unwinding"]
              /\ outcome' = [outcome EXCEPT ![r] = "raised"]
              /\ UNCHANGED <<current_url, history, step>>
    /\ UNCHANGED <<req, resp, task, browser, pending, files, stdout, quota, iterations,
                   last>>

(* ----------------------- run_agent_loop: one step --------------------- *)

\* A record that keeps the whole result.
EntryUncut(n, tool, result) == [step |-> n, tool |-> tool, result |-> result]
\* {"step": step, "tool": tool, "result": str(result)[:800]}, line 114
Entry(n, tool, result) == [step |-> n, tool |-> tool, result |-> Prefix(result, HistoryCap)]
\* {"error": str(e)}, line 118
ErrorEntry(e) == [error |-> e]
IsError(entry) == "error" \in DOMAIN entry

\* What an iteration comes to: its record for last[r], how it ends, the
\* history entry it appends (ends "record", "error"), the files and
\* sys.stdout it leaves, the new URL (ends "advance").
Outcome(did, entry, fs, so, url) ==
    [did |-> did, end |-> did.end, entry |-> entry, files |-> fs, stdout |-> so,
     url |-> url]

\* except Exception as e, lines 116-118: an exception raised in the try block,
\* before or after the adapter the step called.
Caught(out, adapter, ret, cause, fs) ==
    Outcome(Did(out, adapter, ret, "error"), ErrorEntry(ExcText(cause)), fs, stdout, "")
\* Line 114: the step's record.
Recorded(r, did, tool, result, fs, so) ==
    Outcome(did, Entry(step[r], tool, result), fs, so, "")

\* tool = action.get('tool', '').upper(), line 69, for an object with a "tool"
\* that is absent or a string
ToolOf(out) == IF out.ttype = "missing" THEN Upper(Str("")) ELSE Upper(out.tool)
\* args = action.get('args', {}), line 70
ArgsOf(out) == IF out.args.shape = "missing" THEN NoArgs ELSE out.args

\* A SCRAPE without a url that goes nowhere.
TargetNone(args, url) == Get(args.url, None)
\* target = args.get('url', current_url), line 73
Target(args, url) == Get(args.url, url)

\* Lines 72-74: the step suspends in scrape_page; scrape_return ends it.
Scrape(r, out, args) ==
    IF args.shape = "nondict" THEN Caught(out, "none", Returns(Empty), "AttributeError", files)
    ELSE Outcome([Did(out, "scrape_page", Returns(Empty), "suspend")
                     EXCEPT !.target = Target(args, current_url[r])],
                 ErrorEntry(Empty), files, stdout, "")

\* Lines 76-77
Download(r, out, args, net) ==
    IF args.shape = "nondict" THEN Caught(out, "none", Returns(Empty), "AttributeError", files)
    ELSE LET d == download_file(Get(args.url, None), Get(args.filename, "data_file"),
                                net, files)
         IN Recorded(r, Did(out, "download_file", d.ret, "record"), Str("DOWNLOAD"),
                     d.ret.value, d.files, stdout)

\* Lines 79-80
ReadPdf(r, out, args) ==
    IF args.shape = "nondict" THEN Caught(out, "none", Returns(Empty), "AttributeError", files)
    ELSE LET ret == read_pdf(Get(args.filename, None), files)
         IN Recorded(r, Did(out, "read_pdf", ret, "record"), Str("READ_PDF"),
                     ret.value, files, stdout)

\* Lines 82-86: history[-1]['result'] raises KeyError for an error entry.
Python(r, out, args) ==
    LET h == history[r] IN
    IF h # <<>> /\ IsError(h[Len(h)])
    THEN Caught(out, "none", Returns(Empty), "KeyError", files)
    ELSE IF args.shape = "nondict"
    THEN Caught(out, "none", Returns(Empty), "AttributeError", files)
    ELSE LET last_text == IF h # <<>> THEN h[Len(h)].result ELSE Empty
             x == execute_python_code(Get(args.code, None), last_text, stdout)
             did == [Did(out, "execute_python_code", x.ret,
                         IF x.ret.raised = "none" THEN "record" ELSE "raise")
                        EXCEPT !.text_input = last_text]
         IN IF x.ret.raised = "none"
            THEN Recorded(r, did, Str("PYTHON"), x.ret.value, files, x.stdout)
            ELSE Outcome(did, ErrorEntry(Empty), files, x.stdout, "")

\* A response without a correct flag taken for a correct one.
CorrectUnlessFalse(submit_res) == submit_res.correct # "false"
\* submit_res.get('correct') == True, line 100
Correct(submit_res) == Get(submit_res.correct, None) = "true"
\* An empty string taken for a next URL.
TruthyNotNone(new_url) == new_url # None
\* if new_url:, line 102
Truthy(new_url) == new_url \notin {None, ""}
\* The history carried over to the next quiz.
ResetKeeps(h) == h
\* history = [], line 105
Reset(h) == <<>>

\* A payload that names the URL the session was started with.
PayloadOfStart(t, url, answer) ==
    [email |-> t.email, secret |-> t.secret, url |-> t.url, answer |-> answer]
\* The payload of lines 89-94, for the arguments t of run_agent_loop, the
\* value of current_url and the oracle's answer.
Payload(t, url, answer) ==
    [email |-> t.email, secret |-> t.secret, url |-> url, answer |-> answer]

\* Lines 88-111
Submit(r, out, args, post) ==
    IF args.shape = "nondict" THEN Caught(out, "none", Returns(Empty), "AttributeError", files)
    ELSE LET payload == Payload(task[r], current_url[r], Get(args.answer, None))
             submit_url == Get(args.url, None)
             ret == submit_quiz(submit_url, payload, post)
             submit_res == ret.value
             did(end) == [Did(out, "submit_quiz", ret, end)
                             EXCEPT !.payload = payload, !.submit_url = submit_url]
         IN IF submit_res.shape # "dict"
            THEN Outcome(did("error"), ErrorEntry(ExcText("AttributeError")), files,
                         stdout, "")
            ELSE IF Correct(submit_res)
            THEN LET new_url == Get(submit_res.url, None)
                 IN IF Truthy(new_url)
                    THEN Outcome(did("advance"), ErrorEntry(Empty), files, stdout, new_url)
                    ELSE Outcome(did("done"), ErrorEntry(Empty), files, stdout, "")
            ELSE LET reason == Get(submit_res.reason, None)
                     result == Message("submit_failed", 27,
                                       Text("reason", reason, ReasonLen(reason)))
                 IN Recorded(r, did("record"), Str("SUBMIT"), result, files, stdout)

\* How the environment answers the adapter the output leads to.
NoEnv == [net |-> "fail", post |-> Response("neterror", Absent, Absent, Absent)]
Envs(out) ==
    IF out.json = "object" /\ out.ttype = "str" /\ Upper(out.tool) = Str("DOWNLOAD")
    THEN {[NoEnv EXCEPT !.net = n] : n \in Downloads}
    ELSE IF out.json = "object" /\ out.ttype = "str" /\ Upper(out.tool) = Str("SUBMIT")
    THEN {[NoEnv EXCEPT !.post = p] : p \in Posts}
    ELSE {NoEnv}

\* The body of the for loop, lines 36-118, for the oracle's output and the
\* environment's answer.
Step(r, out, env) ==
    IF out.json # "object" THEN Caught(out, "none", Returns(Empty), out.json, files)
    ELSE IF out.ttype = "nonstr"
    THEN Caught(out, "none", Returns(Empty), "AttributeError", files)
    ELSE LET tool == ToolOf(out)
             args == ArgsOf(out)
         IN CASE tool = Str("SCRAPE") -> Scrape(r, out, args)
              [] tool = Str("DOWNLOAD") -> Download(r, out, args, env.net)
              [] tool = Str("READ_PDF") -> ReadPdf(r, out, args)
              [] tool = Str("PYTHON") -> Python(r, out, args)
              [] tool = Str("SUBMIT") -> Submit(r, out, args, env.post)
              [] OTHER -> Recorded(r, Did(out, "none", Returns(Empty), "record"),
                                   tool, Empty, files, stdout)

\* The first entries of the history instead of the last ones.
FirstN(h, n) == IF Len(h) <= n THEN h ELSE SubSeq(h, 1, n)
\* h[-n:]
LastN(h, n) == IF Len(h) <= n THEN h ELSE SubSeq(h, Len(h) - n + 1, Len(h))
\* The prompt of lines 36-56, by the two values its f-string embeds:
\* {current_url} and {json.dumps(history[-3:])}.
Prompt(url, h) == [current_url |-> url, history |-> json_dumps(LastN(h, PromptEntries))]

\* A loop that starts its count again on a new quiz.
NextIndexReset(n, end) == IF end = "advance" THEN 0 ELSE n + 1

\* for step in range(10), line 32: the index after an iteration at index n,
\* however the iteration ended (continue included).
NextIndex(n, end) == n + 1

\* The loop goes on at index n, or range(10) is used up and line 120 is next.
Continue(r, n) ==
    /\ step' = [step EXCEPT ![r] = n]
    /\ IF n < MaxSteps
       THEN pc' = [pc EXCEPT ![r] = "loop"] /\ UNCHANGED outcome
       ELSE /\ pc' = [pc EXCEPT ![r] = "closing"]
            /\ outcome' = [outcome EXCEPT ![r] = "exhausted"]

\* The outputs the oracle can give now: anything while the quota lasts, and
\* then the call raises.
OracleOutputs(r) ==
    IF quota > 0 THEN OracleFailures \cup OracleAnswers(r) ELSE {Bad("raise")}

\* One iteration of the loop, lines 32-118, up to its end or to the await of
\* scrape_page.
iterate(r) ==
    /\ pc[r] = "loop"
    /\ step[r] < MaxSteps
    /\ \E out \in OracleOutputs(r) : \E env \in Envs(out) :
         LET x == Step(r, out, env) IN
         /\ quota' = IF quota > 0 THEN quota - 1 ELSE 0
         /\ iterations' = [iterations EXCEPT ![r] = @ + 1]
         /\ last' = [last EXCEPT ![r] =
                        [x.did EXCEPT !.prompt = Prompt(current_url[r], history[r]),
                                      !.since = IF x.end = "advance" THEN 0
                                                ELSE last[r].since + 1]]
         /\ files' = x.files
         /\ stdout' = x.stdout
         /\ CASE x.end = "suspend" ->
                   /\ pending' = [pending EXCEPT ![r] = x.did.target]
                   /\ pc' = [pc EXCEPT ![r] = "scraping"]
                   /\ UNCHANGED <<current_url, history, step, outcome>>
              [] x.end \in {"record", "error"} ->
                   /\ history' = [history EXCEPT ![r] = Append(@, x.entry)]
                   /\ Continue(r, NextIndex(step[r], x.end))
                   /\ UNCHANGED <<current_url, pending>>
              [] x.end = "advance" ->
                   /\ current_url' = [current_url EXCEPT ![r] = x.url]
                   /\ history' = [history EXCEPT ![r] = Reset(@)]
                   /\ Continue(r, NextIndex(step[r], x.end))
                   /\ UNCHANGED pending
              [] x.end = "done" ->
                   /\ pc' = [pc EXCEPT ![r] = "closing"]
                   /\ outcome' = [outcome EXCEPT ![r] = "done"]
                   /\ UNCHANGED <<current_url, history, step, pending>>
              [] x.end = "raise" ->
                   /\ pc' = [pc EXCEPT ![r] = "unwinding"]
                   /\ outcome' = [outcome EXCEPT ![r] = "raised"]
                   /\ UNCHANGED <<current_url, history, step, pending>>
    /\ UNCHANGED <<req, resp, task, browser>>

\* The rest of a SCRAPE iteration, lines 74 and 114: scrape_page returns.
scrape_return(r) ==
    /\ pc[r] = "scraping"
    /\ \E nav \in Navigations :
         LET ret == scrape_page(pending[r], nav) IN
         /\ last' = [last EXCEPT ![r].ret = ret, ![r].end = "record"]
         /\ history' = [history EXCEPT
                          ![r] = Append(@, Entry(step[r], Str("SCRAPE"), ret.value))]
    /\ pending' = [pending EXCEPT ![r] = ""]
    /\ Continue(r, NextIndex(step[r], "record"))
    /\ UNCHANGED <<req, resp, task, browser, current_url, files, stdout, quota, iterations>>

(* ------------------------- run_agent_loop: exit ----------------------- *)

\* await browser.close(), line 120, after the loop
close_browser(r) ==
    /\ pc[r] = "closing"
    /\ browser' = [browser EXCEPT ![r] = "closed"]
    /\ pc' = [pc EXCEPT ![r] = "exiting"]
    /\ UNCHANGED <<req, resp, task, current_url, history, step, pending, files, stdout,
                   quota, iterations, outcome, last>>

\* A Playwright started without the async with: nothing stops it.
NeverStopped(b) == b
\* What stopping Playwright does to the browser it launched: the driver goes
\* and takes its browsers with it.
StopPlaywright(b) == IF b = "open" THEN "closed" ELSE b

\* Leaving the async with of line 23, after line 120 ("exiting") or with an
\* exception on its way out ("unwinding"): Playwright is stopped, and the
\* function returns or raises.  Its locals are gone.
exit_playwright(r) ==
    /\ pc[r] \in {"exiting", "unwinding"}
    /\ browser' = [browser EXCEPT ![r] = StopPlaywright(@)]
    /\ pc' = [pc EXCEPT ![r] = IF pc[r] = "exiting" THEN "returned" ELSE "raised"]
    /\ current_url' = [current_url EXCEPT ![r] = ""]
    /\ history' = [history EXCEPT ![r] = <<>>]
    /\ step' = [step EXCEPT ![r] = 0]
    /\ last' = [last EXCEPT ![r] = NoStep]
    /\ UNCHANGED <<req, resp, task, pending, files, stdout, quota, iterations, outcome>>

(* --------------------------- specifications --------------------------- *)

Next ==
    \E r \in Requests :
        \/ start_quiz(r)
        \/ launch_browser(r)
        \/ new_page(r)
        \/ iterate(r)
        \/ scrape_return(r)
        \/ close_browser(r)
        \/ exit_playwright(r)

\* One client.
Spec == Init /\ [][Next]_vars
\* Two clients, whose sessions run concurrently.
SpecConc == InitConc /\ [][Next]_vars

\* The event loop runs every coroutine that can run, and every await of the
\* model returns.
FairSpec == Spec /\ \A r \in Requests : WF_vars(
    launch_browser(r) \/ new_page(r) \/ iterate(r) \/ scrape_return(r)
    \/ close_browser(r) \/ exit_playwright(r))

(* ------------------------------ properties ---------------------------- *)

InLoop(r) == pc[r] \in {"loop", "scraping"}
\* The latest iteration of r ended a SUBMIT whose response is an object ...
Submitted(r) == last[r].adapter = "submit_quiz" /\ last[r].ret.value.shape = "dict"
\* ... with correct = true and a non-empty next URL
Advanced(r) ==
    /\ Submitted(r)
    /\ last[r].ret.value.correct = "true"
    /\ last[r].ret.value.url \in Urls
\* ... with correct = true and no next URL
Finished(r) ==
    /\ Submitted(r)
    /\ last[r].ret.value.correct = "true"
    /\ last[r].ret.value.url \in {Absent, ""}
\* ... with correct = false
Rejected(r) == Submitted(r) /\ last[r].ret.value.correct = "false"
\* r has just begun an iteration
Begun(r) == iterations'[r] = iterations[r] + 1

\* C1: a session never begins an 11th iteration of the loop (an 11th oracle
\* call), and a session that is in the loop eventually leaves it.
C1_LoopBounded ==
    /\ [](\A r \in Requests : iterations[r] <= MaxSteps)
    /\ \A r \in Requests : InLoop(r) ~> ~InLoop(r)
\* The step limit ends a session at its tenth iteration.
C1_Exhausted == \E r \in Requests : outcome[r] = "exhausted" /\ iterations[r] = MaxSteps

\* C2: after a SUBMIT step whose response is correct with a next URL, and
\* before the next step, current_url is that URL and history is empty.
C2_AdvanceResets ==
    \A r \in Requests :
        Advanced(r) => current_url[r] = last[r].ret.value.url /\ history[r] = <<>>
\* The second step of a session advances it from Q1 to Q2.
C2_AdvancedToQ2 ==
    \E r \in Requests :
        /\ Advanced(r) /\ pc[r] = "loop" /\ iterations[r] = 2
        /\ task[r].url = "Q1" /\ current_url[r] = "Q2"

\* C3, as stated: after a SUBMIT step that advances, the step count is zero.
C3_StepResets == \A r \in Requests : Advanced(r) => step[r] = 0
\* C3, amended: after a SUBMIT step that advances, the step count is the
\* number of iterations the session has begun (at least one): the loop goes on
\* at the next index, and ends if that index is 10.
C3_StepContinues ==
    \A r \in Requests :
        Advanced(r) => /\ step[r] = iterations[r]
                       /\ step[r] >= 1
                       /\ (pc[r] = "loop") = (step[r] < MaxSteps)
\* A session advances at its second step and goes on at index 2.
C3_AdvancedAtSecond ==
    \E r \in Requests : Advanced(r) /\ step[r] = 2 /\ pc[r] = "loop"

\* C4: a SUBMIT step whose response is correct without a next URL appends
\* nothing to history and leaves the loop as done; a session that is done
\* begins no iteration and is never in the loop again (no oracle call, no
\* adapter call), and its browser gets closed.
C4_DoneEnds ==
    /\ [][\A r \in Requests :
            (Begun(r) /\ Finished(r)') =>
                /\ history'[r] = history[r]
                /\ current_url'[r] = current_url[r]
                /\ pc'[r] = "closing"
                /\ outcome'[r] = "done"]_vars
    /\ [][\A r \in Requests :
            outcome[r] = "done" =>
                /\ iterations'[r] = iterations[r]
                /\ ~InLoop(r)'
                /\ outcome'[r] = "done"]_vars
    /\ \A r \in Requests : (outcome[r] = "done") ~> (browser[r] = "closed")
\* A session that ended as done has returned, its browser closed.
C4_DoneReturned ==
    \E r \in Requests :
        outcome[r] = "done" /\ pc[r] = "returned" /\ browser[r] = "closed"

\* "Submission failed. Reason: <reason>" for the reason of r's latest response
FailureText(r) ==
    LET reason == Get(last[r].ret.value.reason, None)
    IN Text("submit_failed", reason, 27 + ReasonLen(reason))
\* A SUBMIT step of r that is rejected appends one entry with the given result
\* text, leaves current_url alone and goes on to the next index.
RejectedStep(r, result) ==
    /\ history'[r] = Append(history[r],
                            [step |-> step[r], tool |-> Str("SUBMIT"), result |-> result])
    /\ current_url'[r] = current_url[r]
    /\ step'[r] = step[r] + 1
    /\ step'[r] < MaxSteps => pc'[r] = "loop"
\* C5, as stated: a SUBMIT step whose response has correct = false appends one
\* entry whose result is "Submission failed. Reason: <reason>", leaves
\* current_url alone and goes on.
C5_RejectedFullText ==
    [][\A r \in Requests :
         (Begun(r) /\ Rejected(r)') => RejectedStep(r, FailureText(r)')]_vars
\* C5, amended: the entry's result is the first 800 characters of that text.
C5_RejectedCutText ==
    [][\A r \in Requests :
         (Begun(r) /\ Rejected(r)') =>
             RejectedStep(r, Prefix(FailureText(r)', HistoryCap))]_vars
\* A rejection with a long reason is in the history, cut to 800 characters.
C5_LongReasonCut ==
    \E r \in Requests :
        /\ Rejected(r) /\ last[r].ret.value.reason = "long" /\ pc[r] = "loop"
        /\ history[r][Len(history[r])].result.len = HistoryCap

\* The oracle's output is no valid action object.
Malformed(out) ==
    out.json # "object" \/ out.ttype = "nonstr" \/ out.args.shape = "nondict"
\* C6: a step whose oracle call fails or gives no valid action object (no
\* JSON, no object, a tool or args of the wrong type) appends an error entry,
\* calls no adapter, and the loop goes on.
C6_MalformedIsError ==
    \A r \in Requests :
        (last[r].end # "none" /\ Malformed(last[r].out)) =>
            /\ last[r].end = "error"
            /\ last[r].adapter = "none"
            /\ history[r] # <<>> /\ IsError(history[r][Len(history[r])])
            /\ pc[r] = "loop" \/ outcome[r] = "exhausted"

\* C7: a request with a wrong secret is answered 403 and has no session, ever;
\* a request with the right one has one session, started with the request's
\* url, email and secret; no other session exists.
C7_OnlyAuthorized ==
    \A r \in Requests :
        /\ resp[r] = "403" <=> (req[r] # NoRequest /\ req[r].secret # MY_SECRET)
        /\ resp[r] = "200" <=> (req[r] # NoRequest /\ req[r].secret = MY_SECRET)
        /\ resp[r] # "200" =>
               pc[r] = "none" /\ task[r] = NoTask /\ browser[r] = "none"
               /\ iterations[r] = 0
        /\ resp[r] = "200" =>
               /\ pc[r] # "none"
               /\ task[r].url = req[r].url
               /\ task[r].email = req[r].email
               /\ task[r].secret = req[r].secret
\* An accepted request's session is in its loop.
C7_SessionRuns ==
    \E r \in Requests :
        resp[r] = "200" /\ pc[r] = "loop" /\ current_url[r] = req[r].url

\* C8: what a session reads with READ_PDF is what it downloaded itself (the
\* file its own quiz links to), whatever the other sessions do.
C8_Isolated ==
    \A r \in Requests :
        (last[r].adapter = "read_pdf" /\ last[r].ret.value.kind = "pdf") =>
            last[r].ret.value.arg = FileOf(r)

\* C9: when run_agent_loop is left, by return or by exception, the session's
\* browser is not open.
C9_BrowserReleased ==
    \A r \in Requests : pc[r] \in {"returned", "raised"} => browser[r] # "open"
\* A session left by an exception out of one of its steps, its browser closed.
C9_RaisedAndClosed ==
    \E r \in Requests :
        pc[r] = "raised" /\ iterations[r] > 0 /\ browser[r] = "closed"

\* C10: no adapter call lets an exception out.
C10_AdaptersTotal ==
    \A r \in Requests : last[r].adapter # "none" => last[r].ret.raised = "none"

\* What submit_quiz gave back carries no verdict: the error record of a failed
\* request, the raw record of a body that is not JSON, JSON that is no object,
\* or an object without "correct".
NoVerdict(res) == res.shape # "dict" \/ res.correct = Absent

\* C11: a SUBMIT step whose submission fails at the network level, or whose
\* response is not an object with a correct flag, adds exactly one entry to the
\* history, leaves current_url alone, does not end the session as done or with
\* an exception, and the loop goes on while steps remain.
C11_FailedSubmitRecorded ==
    [][\A r \in Requests :
         (Begun(r) /\ last'[r].adapter = "submit_quiz" /\ NoVerdict(last'[r].ret.value))
         => /\ last'[r].end \in {"record", "error"}
            /\ Len(history'[r]) = Len(history[r]) + 1
            /\ SubSeq(history'[r], 1, Len(history[r])) = history[r]
            /\ IsError(history'[r][Len(history'[r])]) <=> last'[r].end = "error"
            /\ current_url'[r] = current_url[r]
            /\ outcome'[r] \notin {"done", "raised"}
            /\ pc'[r] = IF step[r] + 1 < MaxSteps THEN "loop" ELSE "closing"]_vars
\* A response that is a JSON list has been answered with an error entry, after
\* an earlier entry, and the loop goes on.
C11_ListAnswerSurvived ==
    \E r \in Requests :
        /\ last[r].adapter = "submit_quiz" /\ last[r].ret.value.shape = "list"
        /\ Len(history[r]) = 2 /\ IsError(history[r][2])
        /\ pc[r] = "loop"

\* The five tool names the loop dispatches on, lines 72-88.
ToolNames == {"SCRAPE", "DOWNLOAD", "READ_PDF", "PYTHON", "SUBMIT"}
\* The output is an action whose tool name, upper-cased, is none of the five
\* (the empty name of an action without "tool" included).
UnknownTool(out) ==
    out.json = "object" /\ out.ttype # "nonstr" /\ ToolOf(out).name \notin ToolNames

\* C12: a step with an unknown tool name calls no adapter, does not end the
\* loop, and the entry it adds to the history is error-tagged, not a normal
\* record.
C12_UnknownToolIsError ==
    \A r \in Requests :
        UnknownTool(last[r].out)
        => /\ last[r].adapter = "none"
           /\ last[r].end = "error"
           /\ pc[r] \in {"loop", "closing"}
           /\ history[r] # <<>> /\ IsError(history[r][Len(history[r])])

\* The output is a PYTHON action with args that the step can read.
PythonAction(out) ==
    /\ out.json = "object" /\ out.ttype = "str" /\ Upper(out.tool) = Str("PYTHON")
    /\ ArgsOf(out).shape = "dict"
\* The history as the latest iteration found it: without the entry that the
\* iteration has appended since.
HistoryBefore(r) ==
    IF last[r].end \in {"record", "error"}
    THEN SubSeq(history[r], 1, Len(history[r]) - 1)
    ELSE history[r]
\* The text an entry holds.
TextOf(entry) == IF IsError(entry) THEN entry.error ELSE entry.result

\* C13: a PYTHON step executes its snippet, and with text_input the text of the
\* most recent history entry, error-tagged or not ("" for an empty history).
C13_SnippetGetsLastResult ==
    \A r \in Requests :
        PythonAction(last[r].out)
        => /\ last[r].adapter = "execute_python_code"
           /\ LET h == HistoryBefore(r)
              IN last[r].text_input = IF h = <<>> THEN Empty ELSE TextOf(h[Len(h)])

\* min(3, n)
AtMostThree(n) == IF n < 3 THEN n ELSE 3

\* C14: the prompt of an iteration embeds the value of current_url and exactly
\* the last min(3, len(history)) entries of the history, in the history's
\* order; and the history the iteration goes on with still has every entry it
\* had, unchanged (the iteration only appends to it, or clears it on an
\* advance).
C14_PromptShowsLastThree ==
    [][\A r \in Requests :
         Begun(r)
         => LET h == history[r]
                n == AtMostThree(Len(h))
                shown == last'[r].prompt.history.items
            IN /\ last'[r].prompt.current_url = current_url[r]
               /\ Len(shown) = n
               /\ \A i \in 1..n : shown[i] = h[Len(h) - n + i]
               /\ \/ Len(history'[r]) >= Len(h) /\ SubSeq(history'[r], 1, Len(h)) = h
                  \/ last'[r].end = "advance" /\ history'[r] = <<>>]_vars
\* A prompt has shown three entries of a history of four, and not the first
\* one, which differs from the second.
C14_FourthEntryHidden ==
    \E r \in Requests :
        /\ Len(history[r]) = 5 /\ history[r][1] # history[r][2]
        /\ last[r].prompt.history.items = SubSeq(history[r], 2, 4)
        /\ last[r].prompt.current_url = current_url[r]

\* C15: the payload of every SUBMIT step holds the email and the secret of the
\* request that started the session, which stay what they were for the whole
\* session, the answer of the oracle's action, and the value current_url has
\* at that step.
C15_PayloadOfSession ==
    [][\A r \in Requests :
         /\ (pc[r] # "none" => task'[r] = task[r])
         /\ (Begun(r) /\ last'[r].adapter = "submit_quiz")
            => /\ last'[r].payload.email = req[r].email
               /\ last'[r].payload.secret = req[r].secret
               /\ last'[r].payload.url = current_url[r]
               /\ last'[r].payload.answer = Get(last'[r].out.args.answer, None)]_vars
\* After an advance from Q1 to Q2 an answer has been submitted for Q2 and
\* rejected.
C15_SubmittedForSecondQuiz ==
    \E r \in Requests :
        /\ last[r].adapter = "submit_quiz" /\ last[r].end = "record"
        /\ task[r].url = "Q1" /\ current_url[r] = "Q2"
        /\ last[r].payload = [email |-> req[r].email, secret |-> MY_SECRET,
                              url |-> "Q2", answer |-> "42"]

\* C16: no text held in a history entry, result or error, is longer than 800
\* characters; scrape_page returns at most 30,000 characters and read_pdf at
\* most 10,000.
C16_TextsBounded ==
    \A r \in Requests :
        /\ \A i \in 1..Len(history[r]) : TextOf(history[r][i]).len <= 800
        /\ last[r].adapter = "scrape_page" => last[r].ret.value.len <= 30000
        /\ last[r].adapter = "read_pdf" => last[r].ret.value.len <= 10000

\* The action with its tool name written in upper case.
InUpperCase(out) == [out EXCEPT !.tool = Str(out.tool.name)]
\* The output is an action that names one of the five tools, not in upper case.
Variant(out) ==
    /\ out.json = "object" /\ out.ttype = "str"
    /\ out.tool.name \in ToolNames /\ out.tool.case # "upper"

\* C17: a step whose action names one of the five tools in lower or mixed case
\* does what the step of the same action with the upper-case name does in the
\* same state and environment: the same adapter is called with the same
\* arguments and gives the same, and the step ends the same way with the same
\* entry, files, standard output and next URL.
C17_CaseInsensitive ==
    [][\A r \in Requests :
         (Begun(r) /\ Variant(last'[r].out))
         => \E env \in Envs(InUpperCase(last'[r].out)) :
                LET y == Step(r, InUpperCase(last'[r].out), env)
                IN /\ [last'[r] EXCEPT !.out = y.did.out] =
                          [y.did EXCEPT !.prompt = last'[r].prompt,
                                        !.since = last'[r].since]
                   /\ files' = y.files /\ stdout' = y.stdout
                   /\ y.end \in {"record", "error"}
                          => history'[r] = Append(history[r], y.entry)
                   /\ y.end = "advance" => current_url'[r] = y.url]_vars
\* A step named "Submit" has submitted and advanced, as the second step of
\* its session.
C17_MixedCaseSubmitted ==
    \E r \in Requests :
        /\ last[r].out.tool = Mixed("SUBMIT")
        /\ last[r].adapter = "submit_quiz" /\ last[r].end = "advance"
        /\ history[r] = <<>> /\ iterations[r] = 2

\* The output is a SCRAPE action that gives no url.
ScrapeOfCurrent(out) ==
    /\ out.json = "object" /\ out.ttype = "str" /\ Upper(out.tool) = Str("SCRAPE")
    /\ ArgsOf(out).shape = "dict" /\ ArgsOf(out).url = Absent

\* C18: while a session is in its loop, current_url changes only in a SUBMIT
\* step whose response is correct and holds a next URL, and becomes that URL;
\* every other step leaves it as it is; and a SCRAPE step without a url
\* scrapes the value current_url has at that step.
C18_UrlChangesOnAdvance ==
    [][\A r \in Requests :
         /\ (InLoop(r) /\ current_url'[r] # current_url[r])
            => /\ Begun(r)
               /\ last'[r].adapter = "submit_quiz"
               /\ last'[r].ret.value.shape = "dict"
               /\ last'[r].ret.value.correct = "true"
               /\ last'[r].ret.value.url \in Urls
               /\ current_url'[r] = last'[r].ret.value.url
         /\ (Begun(r) /\ ScrapeOfCurrent(last'[r].out))
            => /\ last'[r].adapter = "scrape_page"
               /\ last'[r].target = current_url[r]
               /\ pending'[r] = current_url[r]
               /\ current_url'[r] = current_url[r]]_vars
\* After an advance from Q1 to Q2, a SCRAPE without a url has scraped Q2 and
\* left current_url at Q2.
C18_ScrapedSecondQuiz ==
    \E r \in Requests :
        /\ ScrapeOfCurrent(last[r].out) /\ last[r].end = "record"
        /\ last[r].ret.value.kind = "page" /\ last[r].ret.value.arg = "Q2"
        /\ task[r].url = "Q1" /\ current_url[r] = "Q2"

\* The step taken ends an iteration of session r: at once, or by the return of
\* scrape_page.
Ended(r) ==
    \/ Begun(r) /\ last'[r].end # "suspend"
    \/ pc[r] = "scraping" /\ pc'[r] # "scraping"

\* C19: an iteration that ends adds exactly one entry at the end of the
\* history, unless it advances, which clears the history, or ends the session
\* as done, which leaves it as it is; no other step of a session in its loop
\* touches the history; and the history is never longer than the number of
\* iterations begun since the latest advance.
C19_OneEntryPerStep ==
    [][\A r \in Requests :
         /\ Ended(r)
            => CASE last'[r].end = "advance" -> history'[r] = <<>>
                 [] last'[r].end = "done" -> history'[r] = history[r]
                 [] OTHER -> /\ Len(history'[r]) = Len(history[r]) + 1
                             /\ SubSeq(history'[r], 1, Len(history[r])) = history[r]
         /\ (InLoop(r) /\ ~Ended(r)) => history'[r] = history[r]
         /\ Len(history'[r]) <= last'[r].since]_vars

\* C20: whenever no snippet is running, sys.stdout is the stream the process
\* started with: every call of execute_python_code, however it was left, has
\* put back the stream it found.
C20_StdoutRestored == stdout = "console"

====
